---- MODULE Spec2Model ----
(***************************************************************************)
(* Model of scripts/ios_sim.py: the element lookup (find_element), the     *)
(* coordinate computation (element_center, cmd_scroll's direction table)   *)
(* and the sequencing of the navigation commands around the external       *)
(* processes they run.                                                     *)
(*                                                                         *)
(* Text is a sequence of one-character strings.  A JSON object is a        *)
(* function whose DOMAIN is the set of keys present, so dict.get(k, d) is  *)
(* Get(e, k, d).  Numbers are kept in half points (Pt(n) is n points):     *)
(* every numeric input is a whole number of points and the code only ever  *)
(* halves an input, so half points represent each value exactly.           *)
(***************************************************************************)
EXTENDS Integers, Sequences, FiniteSets, TLC

\* ------------------------------------------------------------------ bounds

\* Longest element list describe-all returns in the lookup specification.
MaxElems == 2

\* Largest small frame coordinate or extent, in points.
MaxCoord == 2

\* Largest small screen width or height, in points.
MaxDim == 2

\* Largest small scroll distance, in points.
MaxDist == 1

\* Largest exit code an external process returns.
MaxExitCode == 2

\* ------------------------------------------------------------------ text

\* The letters str.lower() and str.upper() change, paired by position.
LowerLetters ==
    << "a", "b", "c", "d", "e", "f", "g", "h", "i", "j", "k", "l", "m",
       "n", "o", "p", "q", "r", "s", "t", "u", "v", "w", "x", "y", "z" >>

UpperLetters ==
    << "A", "B", "C", "D", "E", "F", "G", "H", "I", "J", "K", "L", "M",
       "N", "O", "P", "Q", "R", "S", "T", "U", "V", "W", "X", "Y", "Z" >>

\* The case mappings as tables, from a letter to its counterpart.
ToLower ==
    [ c \in { UpperLetters[i] : i \in 1..Len(UpperLetters) } |->
        LowerLetters[CHOOSE i \in 1..Len(UpperLetters) : UpperLetters[i] = c] ]

ToUpper ==
    [ c \in { LowerLetters[i] : i \in 1..Len(LowerLetters) } |->
        UpperLetters[CHOOSE i \in 1..Len(LowerLetters) : LowerLetters[i] = c] ]

\* str.lower() on one character: an upper-case letter becomes its lower-case
\* letter, any other character stays.
LowerChar(c) == IF c \in DOMAIN ToLower THEN ToLower[c] ELSE c

\* str.upper() on one character.
UpperChar(c) == IF c \in DOMAIN ToUpper THEN ToUpper[c] ELSE c

\* str.upper(): character by character.
upper(s) == [i \in 1..Len(s) |-> UpperChar(s[i])]

\* str.lower(): character by character.
lower(s) == [i \in 1..Len(s) |-> LowerChar(s[i])]

\* Python's "q in c" on strings: q occurs in c as a contiguous run.
Contains(c, q) ==
    \E k \in 0..(Len(c) - Len(q)) : SubSeq(c, k + 1, k + Len(q)) = q

\* dict.get(key, default).
Get(e, key, default) == IF key \in DOMAIN e THEN e[key] ELSE default

\* e.get(key) or "": a missing key and an empty text both give "".
TextOf(e, key) == Get(e, key, <<>>)

\* ------------------------------------------------------------ find_element

\* The three lowered candidate texts of an element, in the code's order.
candidates(e) ==
    << lower(TextOf(e, "AXLabel")), lower(TextOf(e, "title")),
       lower(TextOf(e, "AXValue")) >>

\* The test of one pass on one element: "q in candidates" in the exact pass,
\* "any(q in c for c in candidates if c)" in the partial pass.
PassHit(e, q, exact) ==
    IF exact
    THEN \E i \in 1..3 : candidates(e)[i] = q
    ELSE \E i \in 1..3 : candidates(e)[i] # <<>> /\ Contains(candidates(e)[i], q)

\* The inner loop "for e in elements" from index i on: the index of the first
\* element the pass accepts, 0 when the loop runs off the end.
RECURSIVE ScanFrom(_, _, _, _)
ScanFrom(elems, q, exact, i) ==
    IF i > Len(elems) THEN 0
    ELSE IF PassHit(elems[i], q, exact) THEN i
    ELSE ScanFrom(elems, q, exact, i + 1)

\* The inner loop run backwards: the last element the pass accepts.
RECURSIVE ScanBack(_, _, _, _)
ScanBack(elems, q, exact, i) ==
    IF i < 1 THEN 0
    ELSE IF PassHit(elems[i], q, exact) THEN i
    ELSE ScanBack(elems, q, exact, i - 1)

\* find_element with the passes in the wrong order (partial before exact).
find_element_partial_first(elems, query) ==
    LET q == lower(query)
        partial == ScanFrom(elems, q, FALSE, 1)
    IN  IF partial # 0 THEN partial ELSE ScanFrom(elems, q, TRUE, 1)

\* find_element keeping the last match of a pass instead of the first.
find_element_last_match(elems, query) ==
    LET q == lower(query)
        first == ScanBack(elems, q, TRUE, Len(elems))
    IN  IF first # 0 THEN first ELSE ScanBack(elems, q, FALSE, Len(elems))

\* find_element without the fallback pass.
find_element_exact_only(elems, query) == ScanFrom(elems, lower(query), TRUE, 1)

\* find_element: the exact pass over the whole list, then the partial pass.
\* The result is the index of the element returned, 0 for None.
find_element(elems, query) ==
    LET q == lower(query)
        first == ScanFrom(elems, q, TRUE, 1)
    IN  IF first # 0 THEN first ELSE ScanFrom(elems, q, FALSE, 1)

\* ---------------------------------------------------------- element_center

\* n points, in half points.
Pt(n) == 2 * n

\* v / 2 (Python's true division), v and the result in half points.
Half(v) == v \div 2

\* v // 2 (floor division of a whole number of points), in half points.
FloorHalf(v) == Pt((v \div 2) \div 2)

\* The empty dict {}.
EmptyDict == <<>>

\* element_center with // in place of /.
element_center_floor(element) ==
    LET frame == Get(element, "frame", EmptyDict)
    IN  << Get(frame, "x", 0) + FloorHalf(Get(frame, "width", 0)),
           Get(frame, "y", 0) + FloorHalf(Get(frame, "height", 0)) >>

\* element_center: (cx, cy) of the element's frame, each missing key read as 0.
element_center(element) ==
    LET frame == Get(element, "frame", EmptyDict)
    IN  << Get(frame, "x", 0) + Half(Get(frame, "width", 0)),
           Get(frame, "y", 0) + Half(Get(frame, "height", 0)) >>

\* --------------------------------------------------------------- cmd_scroll

\* The screen size cmd_scroll falls back to, in points.
DefaultWidth == 390

DefaultHeight == 844

\* next((e for e in elements if e.get("role") == "AXApplication"), None) from
\* index i on: the index of the first application element, 0 for None.
RECURSIVE FirstApp(_, _)
FirstApp(elems, i) ==
    IF i > Len(elems) THEN 0
    ELSE IF Get(elems[i], "role", "") = "AXApplication" THEN i
    ELSE FirstApp(elems, i + 1)

\* (w, h): the application element's frame size, each missing key and a
\* missing application element falling back to the default, in half points.
screen_size(elems) ==
    LET app == FirstApp(elems, 1)
    IN  IF app # 0
        THEN LET frame == Get(elems[app], "frame", EmptyDict)
             IN  << Get(frame, "width", Pt(DefaultWidth)),
                    Get(frame, "height", Pt(DefaultHeight)) >>
        ELSE << Pt(DefaultWidth), Pt(DefaultHeight) >>

\* direction_map with the "up" row a copy of the "down" row.
direction_map_up_copied(cx, cy, dist) ==
    [ down  |-> << cx, cy + Half(dist), cx, cy - Half(dist) >>,
      up    |-> << cx, cy + Half(dist), cx, cy - Half(dist) >>,
      left  |-> << cx + Half(dist), cy, cx - Half(dist), cy >>,
      right |-> << cx - Half(dist), cy, cx + Half(dist), cy >> ]

\* direction_map with the vertical rows exchanged (no inversion).
direction_map_uninverted(cx, cy, dist) ==
    [ down  |-> << cx, cy - Half(dist), cx, cy + Half(dist) >>,
      up    |-> << cx, cy + Half(dist), cx, cy - Half(dist) >>,
      left  |-> << cx + Half(dist), cy, cx - Half(dist), cy >>,
      right |-> << cx - Half(dist), cy, cx + Half(dist), cy >> ]

\* direction_map: for each direction the swipe (x1, y1, x2, y2) around the
\* screen center (cx, cy), in half points.
direction_map(cx, cy, dist) ==
    [ down  |-> << cx, cy + Half(dist), cx, cy - Half(dist) >>,
      up    |-> << cx, cy - Half(dist), cx, cy + Half(dist) >>,
      left  |-> << cx + Half(dist), cy, cx - Half(dist), cy >>,
      right |-> << cx - Half(dist), cy, cx + Half(dist), cy >> ]

\* The clamp left out.
clamp_none(v) == v

\* max(0, v).
clamp(v) == IF 0 >= v THEN 0 ELSE v

\* int(v): v in half points, truncated toward zero to whole points.
int(v) == IF v >= 0 THEN v \div 2 ELSE -((-v) \div 2)

\* The direction table cmd_scroll builds for a snapshot and a distance.
scroll_table(elems, dist) ==
    LET size == screen_size(elems)
    IN  direction_map(Half(size[1]), Half(size[2]), dist)

\* The four numbers cmd_scroll hands to "idb ui swipe", in points: the row of
\* the direction, clamped, then truncated.
scroll_swipe(elems, dir, dist) ==
    LET row == scroll_table(elems, dist)[dir]
    IN  [ i \in 1..4 |-> int(clamp(row[i])) ]

\* ------------------------------------------------------------------ state

VARIABLES
    elements,   \* lookup: the element list handed to find_element
    query,      \* lookup: the query text
    found,      \* lookup: find_element's result (index, 0 for None)
    fpc,        \* lookup: "input" before the call, "done" after
    element,    \* center: the element handed to element_center
    center,     \* center: element_center's result, in half points
    cpc,        \* center: "input" before the call, "done" after
    screen,     \* scroll: the element list describe-all returned to cmd_scroll
    direction,  \* scroll: args.direction
    distance,   \* scroll: args.distance, in half points
    table,      \* scroll: direction_map as built, in half points
    swipe,      \* scroll: the numbers handed to "idb ui swipe", in points
    spc,        \* scroll: "input" before the computation, "done" after
    cmd,        \* command: args.command, the CLI verb
    arg,        \* command: args.label or args.button (texts), the direction
                \* word given to scroll (a string), empty text otherwise
    ui,         \* command: the element list of the pre-action describe-all
    pc,         \* command: the handler's position
    log,        \* command: the steps taken so far, each with its exit code
    exit_code   \* command: the tool's exit status (0 until sys.exit)

findVars == <<elements, query, found, fpc>>

centerVars == <<element, center, cpc>>

scrollVars == <<screen, direction, distance, table, swipe, spc>>

cmdVars == <<cmd, arg, ui, pc, log, exit_code>>

vars == <<findVars, centerVars, scrollVars, cmdVars>>

\* The lookup variables while another specification runs.
IdleFind == elements = <<>> /\ query = <<>> /\ found = 0 /\ fpc = "off"

\* The center variables while another specification runs.
IdleCenter == element = EmptyDict /\ center = <<0, 0>> /\ cpc = "off"

\* The scroll variables while another specification runs.
IdleScroll ==
    /\ screen = <<>>
    /\ direction = "down"
    /\ distance = 0
    /\ table = direction_map(0, 0, 0)
    /\ swipe = <<0, 0, 0, 0>>
    /\ spc = "off"

\* The command variables while another specification runs.
IdleCmd ==
    /\ cmd = "list"
    /\ arg = <<>>
    /\ ui = <<>>
    /\ pc = "off"
    /\ log = <<>>
    /\ exit_code = 0

\* --------------------------------------------------- lookup specification

\* The texts a field holds: empty, one upper-case letter, and a mixed-case
\* text ending in that letter.
FieldTexts == { <<>>, <<"B">>, <<"a", "B">> }

\* The queries: empty, one that equals a field in the other case and is the
\* tail of another, and one that equals the longer field in another case.
Queries == { <<>>, <<"b">>, <<"A", "b">> }

TextKeys == {"AXLabel", "title", "AXValue"}

\* Every element over the three text keys, each key present or missing.
TextElements == UNION { [D -> FieldTexts] : D \in SUBSET TextKeys }

ElementLists == UNION { [1..n -> TextElements] : n \in 0..MaxElems }

InitFind ==
    /\ elements \in ElementLists
    /\ query \in Queries
    /\ found = 0
    /\ fpc = "input"
    /\ IdleCenter
    /\ IdleScroll
    /\ IdleCmd

\* The call find_element(elements, query).
Find ==
    /\ fpc = "input"
    /\ found' = find_element(elements, query)
    /\ fpc' = "done"
    /\ UNCHANGED <<elements, query>>
    /\ UNCHANGED <<centerVars, scrollVars, cmdVars>>

NextFind == Find

SpecFind == InitFind /\ [][NextFind]_vars

\* ------------------------------------------------ lookup: what the claims say

\* Two characters are the same letter, whatever their case.
SameLetter(x, y) ==
    \/ x = y
    \/ <<x, y>> \in { <<"a", "A">>, <<"A", "a">>, <<"b", "B">>, <<"B", "b">> }

\* Text t equals text q ignoring case.
EqIgnoreCase(t, q) ==
    /\ Len(t) = Len(q)
    /\ \A i \in 1..Len(q) : SameLetter(t[i], q[i])

\* Text t contains text q ignoring case.
ContainsIgnoreCase(t, q) ==
    \E off \in 0..(Len(t) - Len(q)) :
        \A i \in 1..Len(q) : SameLetter(t[off + i], q[i])

\* Element e has a label, title or value equal to q ignoring case, a missing
\* field counting as empty text.
HasEqualField(e, q) == \E k \in TextKeys : EqIgnoreCase(TextOf(e, k), q)

\* Element e has a label, title or value containing q ignoring case.
HasContainingField(e, q) == \E k \in TextKeys : ContainsIgnoreCase(TextOf(e, k), q)

\* Some element of the list has a field equal to the query.
SomeExact == \E i \in 1..Len(elements) : HasEqualField(elements[i], query)

\* Element e satisfies the pass that is active for this list and query.
SatisfiesActivePass(e) ==
    IF SomeExact THEN HasEqualField(e, query) ELSE HasContainingField(e, query)

\* C1: when some element has a label, title or value equal to the query
\* ignoring case, find_element returns an element with such an equal field,
\* whatever precedes it in the list.
C1_ExactPreferred ==
    (fpc = "done" /\ SomeExact) =>
        (found # 0 /\ HasEqualField(elements[found], query))

\* C1's case: an element that only contains the query comes first, an element
\* equal to it second, and the second one is returned.
C1_Witness ==
    /\ fpc = "done"
    /\ Len(elements) = 2
    /\ query # <<>>
    /\ HasContainingField(elements[1], query)
    /\ ~HasEqualField(elements[1], query)
    /\ HasEqualField(elements[2], query)
    /\ found = 2

\* C2: the element find_element returns satisfies the active pass and no
\* element before it in the list does.
C2_FirstMatchWins ==
    (fpc = "done" /\ found # 0) =>
        /\ SatisfiesActivePass(elements[found])
        /\ \A j \in 1..(found - 1) : ~SatisfiesActivePass(elements[j])

\* C2's case: two elements satisfy the partial pass (no exact match exists)
\* and the first of them is returned.
C2_Witness ==
    /\ fpc = "done"
    /\ Len(elements) = 2
    /\ ~SomeExact
    /\ HasContainingField(elements[1], query)
    /\ HasContainingField(elements[2], query)
    /\ elements[1] # elements[2]
    /\ found = 1

\* C3: find_element returns None exactly when no element has a label, title or
\* value that equals or contains the query ignoring case.
C3_NoneIffNoMatch ==
    fpc = "done" =>
        (found = 0 <=>
            \A i \in 1..Len(elements) :
                /\ ~HasEqualField(elements[i], query)
                /\ ~HasContainingField(elements[i], query))

\* C3's case: a non-empty list holding an element with all three fields
\* missing, a non-empty query, and None returned.
C3_Witness ==
    /\ fpc = "done"
    /\ Len(elements) = 2
    /\ DOMAIN elements[1] = {}
    /\ DOMAIN elements[2] = TextKeys
    /\ query # <<>>
    /\ found = 0

\* --------------------------------------------------- center specification

\* Frame origins: small ones on and off screen, and the documented example.
FrameXs == { Pt(n) : n \in (-MaxCoord..MaxCoord) \cup {100} }

FrameYs == { Pt(n) : n \in (-MaxCoord..MaxCoord) \cup {200} }

\* Frame extents: zero, odd and even small ones, and the documented example.
FrameWidths == { Pt(n) : n \in (0..MaxCoord) \cup {50} }

FrameHeights == { Pt(n) : n \in (0..MaxCoord) \cup {20} }

FrameKeys == {"x", "y", "width", "height"}

\* The values a frame key may hold.
FrameValues(k) ==
    CASE k = "x" -> FrameXs
      [] k = "y" -> FrameYs
      [] k = "width" -> FrameWidths
      [] OTHER -> FrameHeights

\* Every frame dict: each key present with one of its values, or missing.
Frames ==
    UNION { { f \in [D -> FrameXs \cup FrameYs \cup FrameWidths \cup FrameHeights] :
                \A k \in D : f[k] \in FrameValues(k) } : D \in SUBSET FrameKeys }

\* An element with a frame, or without the "frame" key.
FramedElements == { [frame |-> f] : f \in Frames } \cup { EmptyDict }

InitCenter ==
    /\ element \in FramedElements
    /\ center = <<0, 0>>
    /\ cpc = "input"
    /\ IdleFind
    /\ IdleScroll
    /\ IdleCmd

\* The call element_center(element).
Center ==
    /\ cpc = "input"
    /\ center' = element_center(element)
    /\ cpc' = "done"
    /\ UNCHANGED element
    /\ UNCHANGED <<findVars, scrollVars, cmdVars>>

NextCenter == Center

SpecCenter == InitCenter /\ [][NextCenter]_vars

\* ------------------------------------------------ center: what the claims say

\* The frame of the element under test, {} when it has none.
FrameOf == Get(element, "frame", EmptyDict)

\* A frame value in half points, 0 when the key is missing.
FrameVal(k) == Get(FrameOf, k, 0)

\* C4: element_center returns (x + width/2, y + height/2), each axis on its
\* own: twice the center is twice the origin plus the extent; a zero-size
\* frame has its center at its origin; the frame {x:100, y:200, width:50,
\* height:20} has its center at (125, 210).
C4_CenterFormula ==
    cpc = "done" =>
        /\ 2 * center[1] = 2 * FrameVal("x") + FrameVal("width")
        /\ 2 * center[2] = 2 * FrameVal("y") + FrameVal("height")
        /\ (FrameVal("width") = 0 /\ FrameVal("height") = 0)
              => center = <<FrameVal("x"), FrameVal("y")>>
        /\ FrameOf = [x |-> Pt(100), y |-> Pt(200), width |-> Pt(50), height |-> Pt(20)]
              => center = <<Pt(125), Pt(210)>>

\* C4's case: the center of the documented example frame has been computed.
C4_Witness ==
    /\ cpc = "done"
    /\ FrameOf = [x |-> Pt(100), y |-> Pt(200), width |-> Pt(50), height |-> Pt(20)]
    /\ center = <<Pt(125), Pt(210)>>

\* --------------------------------------------------- scroll specification

\* Screen sizes an application element reports: small ones, and the size of
\* the documented example.
ScreenWidths == { Pt(n) : n \in (1..MaxDim) \cup {DefaultWidth} }

ScreenHeights == { Pt(n) : n \in (1..MaxDim) \cup {DefaultHeight} }

\* The frame dicts of an application element: each of width and height
\* present or missing.
AppFrames ==
    UNION { { f \in [D -> ScreenWidths \cup ScreenHeights] :
                /\ ("width" \in D => f["width"] \in ScreenWidths)
                /\ ("height" \in D => f["height"] \in ScreenHeights) }
            : D \in SUBSET {"width", "height"} }

\* What describe-all lists: application elements with a frame, one without
\* the "frame" key, and an element that is no application.
ProbeElements ==
    { [role |-> "AXApplication", frame |-> f] : f \in AppFrames }
        \cup { [role |-> "AXApplication"], [role |-> "AXButton"] }

ProbeLists == UNION { [1..n -> ProbeElements] : n \in 0..MaxElems }

Directions == {"up", "down", "left", "right"}

\* Distances: small ones of either sign, the default 300, and one larger than
\* every screen.
Distances == { Pt(n) : n \in (-MaxDist..MaxDist) \cup {300, 2000} }

InitScroll ==
    /\ screen \in ProbeLists
    /\ direction \in Directions
    /\ distance \in Distances
    /\ table = direction_map(0, 0, 0)
    /\ swipe = <<0, 0, 0, 0>>
    /\ spc = "input"
    /\ IdleFind
    /\ IdleCenter
    /\ IdleCmd

\* cmd_scroll from the probed snapshot to the arguments of the swipe.
ScrollCompute ==
    /\ spc = "input"
    /\ table' = scroll_table(screen, distance)
    /\ swipe' = scroll_swipe(screen, direction, distance)
    /\ spc' = "done"
    /\ UNCHANGED <<screen, direction, distance>>
    /\ UNCHANGED <<findVars, centerVars, cmdVars>>

NextScroll == ScrollCompute

SpecScroll == InitScroll /\ [][NextScroll]_vars

\* ------------------------------------------------ scroll: what the claims say

\* The screen width and height cmd_scroll works with, in half points.
ScreenW == screen_size(screen)[1]

ScreenH == screen_size(screen)[2]

\* C5 (as claimed): for a positive distance, "down" ends above its start, "up"
\* below it, "left" ends right of its start and "right" left of it.
C5_InvertedSwipe ==
    (spc = "done" /\ distance > 0) =>
        /\ direction = "down" => swipe[4] < swipe[2]
        /\ direction = "up" => swipe[4] > swipe[2]
        /\ direction = "left" => swipe[3] > swipe[1]
        /\ direction = "right" => swipe[3] < swipe[1]

\* The documented example's inputs: a 390 by 844 screen, "down", 300 points.
ExampleScroll ==
    /\ spc = "done"
    /\ ScreenW = Pt(390)
    /\ ScreenH = Pt(844)
    /\ direction = "down"
    /\ distance = Pt(300)

\* C6 (as claimed): the example's swipe goes from (195, 372) to (195, 72).
C6_SpecExample == ExampleScroll => swipe = <<195, 372, 195, 72>>

\* C6 (amended): the example's swipe goes from (195, 572) to (195, 272), 150
\* points either side of the screen center (195, 422).
C6_Example == ExampleScroll => swipe = <<195, 572, 195, 272>>

\* C6's case: the example has been computed from a reported 390 by 844 frame.
C6_Witness ==
    /\ ExampleScroll
    /\ Len(screen) = 1
    /\ "frame" \in DOMAIN screen[1]
    /\ DOMAIN screen[1]["frame"] = {"width", "height"}
    /\ swipe = <<195, 572, 195, 272>>

\* The point (x, y) reflected through the screen center (w/2, h/2): twice the
\* center is the size, so the image is (w - x, h - y).
Reflect(x, y) == << ScreenW - x, ScreenH - y >>

\* Rows a and b of the table are point reflections of each other.
Reflected(a, b) ==
    /\ Reflect(a[1], a[2]) = << b[1], b[2] >>
    /\ Reflect(a[3], a[4]) = << b[3], b[4] >>

\* C7: in the direction table "down" and "up" are point reflections of each
\* other through the screen center, start to start and end to end, and so are
\* "left" and "right".
C7_PointReflection ==
    spc = "done" =>
        /\ Reflected(table["down"], table["up"])
        /\ Reflected(table["left"], table["right"])

\* C7's case: a table built for a distance that moves the finger, over a
\* reported screen, whose rows differ.
C7_Witness ==
    /\ spc = "done"
    /\ distance = Pt(300)
    /\ ScreenW = Pt(1)
    /\ table["down"] # table["up"]
    /\ table["left"] # table["right"]

\* C8: every number handed to the swipe is non-negative.
C8_NonNegative == spc = "done" => \A i \in 1..4 : swipe[i] >= 0

\* C8's case: a distance larger than the screen, so that the table's end point
\* is negative and the swipe's is clamped to 0.
C8_Witness ==
    /\ spc = "done"
    /\ direction = "down"
    /\ distance = Pt(2000)
    /\ table["down"][4] < 0
    /\ swipe[4] = 0

\* -------------------------------------------------- command specification

\* The verbs whose handler goes through with_ui_hooks.
HookCommands == {"tap", "swipe", "text", "key", "button", "openurl"}

\* The verbs whose handler runs one external process and returns.
SimpleCommands ==
    {"list", "boot", "shutdown", "build", "install", "terminate", "list-apps",
     "screenshot"}

\* COMMANDS: every verb of the tool.
Commands ==
    HookCommands \cup SimpleCommands
        \cup {"tap-element", "scroll", "launch", "describe", "find"}

\* cmd_button's set of valid names.
valid ==
    { <<"A", "P", "P", "L", "E", "_", "P", "A", "Y">>, <<"H", "O", "M", "E">>,
      <<"L", "O", "C", "K">>,
      <<"S", "I", "D", "E", "_", "B", "U", "T", "T", "O", "N">>,
      <<"S", "I", "R", "I">> }

\* Button names given on the command line: valid in either case, and invalid.
ButtonArgs ==
    { <<"H", "O", "M", "E">>, <<"l", "o", "c", "k">>, <<"S", "i", "r", "i">>,
      <<"P", "O", "W", "E", "R">> }

\* Labels given to tap-element and find.
LabelArgs == { <<"o", "k">>, <<"a", "c">>, <<"n", "o">> }

\* Direction words given to scroll: the four choices, and two that are not.
DirectionArgs == {"up", "down", "left", "right", "diagonal", "UP"}

\* The default of scroll's --distance, in points.
DefaultDistance == 300

\* The arguments a verb's handler reads.
ArgsOf(c) ==
    CASE c = "button" -> ButtonArgs
      [] c \in {"tap-element", "find"} -> LabelArgs
      [] c = "scroll" -> DirectionArgs
      [] OTHER -> { <<>> }

\* Two elements describe-all may list.
OkButton == [AXLabel |-> <<"O", "K">>]

BackButton == [title |-> <<"B", "a", "c", "k">>]

\* The element lists a successful describe-all returns.
Snapshots == { <<>>, <<OkButton>>, <<BackButton, OkButton>> }

\* The exit codes of an external process.
ExitCodes == 0..MaxExitCode

\* What every step of a handler leaves alone.
Frame == UNCHANGED <<cmd, arg, findVars, centerVars, scrollVars>>

\* run() with check=False: the exit code is ignored.
run_unchecked(step, ok_pc) ==
    \E rc \in ExitCodes :
        /\ log' = Append(log, [step |-> step, rc |-> rc])
        /\ pc' = ok_pc
        /\ UNCHANGED exit_code

\* run(cmd): the external process runs to completion; a non-zero exit code
\* ends the tool with that code, a zero one lets the handler go on.
run(step, ok_pc) ==
    \E rc \in ExitCodes :
        /\ log' = Append(log, [step |-> step, rc |-> rc])
        /\ IF rc # 0
           THEN pc' = "exited" /\ exit_code' = rc
           ELSE pc' = ok_pc /\ UNCHANGED exit_code

\* describe_all(udid) before the action: run(), then the parsed element list.
describe_all(ok_pc) ==
    /\ run("snapshot", ok_pc)
    /\ ui' \in (IF pc' = "exited" THEN {ui} ELSE Snapshots)
    /\ Frame

\* describe_all(udid) after the action: its result is only printed.
describe_all_post(ok_pc) ==
    /\ run("snapshot", ok_pc)
    /\ UNCHANGED ui
    /\ Frame

\* The external action of a handler: one run().
run_action(ok_pc) ==
    /\ run("action", ok_pc)
    /\ UNCHANGED ui
    /\ Frame

\* A step that runs no external process: print_ui_summary or time.sleep.
local_step(step, next_pc) ==
    /\ log' = Append(log, [step |-> step, rc |-> 0])
    /\ pc' = next_pc
    /\ UNCHANGED <<exit_code, ui>>
    /\ Frame

\* sys.exit(1) after a local validation failure.
exit_1 ==
    /\ pc' = "exited"
    /\ exit_code' = 1
    /\ UNCHANGED <<log, ui>>
    /\ Frame

\* A local check that passes: the handler goes on.
go_on(next_pc) ==
    /\ pc' = next_pc
    /\ UNCHANGED <<log, exit_code, ui>>
    /\ Frame

\* with_ui_hooks entered at the action, the pre-action snapshot left out.
hooks_entry_at_action == "action"

\* Where with_ui_hooks starts: at the pre-action describe_all.
hooks_entry == "pre_snapshot"

\* Where each verb's handler starts.
EntryPoint(c) ==
    CASE c = "button" -> "validate"
      [] c \in HookCommands \ {"button"} -> hooks_entry
      [] c \in {"tap-element", "scroll", "describe", "find"} -> "pre_snapshot"
      [] OTHER -> "action"

InitCmd ==
    /\ cmd \in Commands
    /\ arg \in ArgsOf(cmd)
    /\ ui = <<>>
    /\ pc = "start"
    /\ log = <<>>
    /\ exit_code = 0
    /\ IdleFind
    /\ IdleCenter
    /\ IdleScroll

\* parser.error(): argparse prints the usage and exits with status 2.
parser_error ==
    /\ pc' = "exited"
    /\ exit_code' = 2
    /\ UNCHANGED <<log, ui>>
    /\ Frame

\* An uncaught exception (KeyError): a traceback and exit status 1.
uncaught ==
    /\ pc' = "crashed"
    /\ exit_code' = 1
    /\ UNCHANGED <<log, ui>>
    /\ Frame

\* parse_args with scroll's direction declared without choices.
Parse_no_choices ==
    /\ pc = "start"
    /\ go_on("parsed")

\* parser.parse_args(): scroll's direction must be one of the choices.
Parse ==
    /\ pc = "start"
    /\ IF cmd = "scroll" /\ arg \notin Directions
       THEN parser_error
       ELSE go_on("parsed")

\* main: the verb's handler is looked up in COMMANDS and called.
Dispatch ==
    /\ pc = "parsed"
    /\ go_on(EntryPoint(cmd))

\* cmd_button: the name, upper-cased, must be a valid one.
Button_Validate ==
    /\ pc = "validate" /\ cmd = "button"
    /\ IF upper(arg) \notin valid THEN exit_1 ELSE go_on(hooks_entry)

\* with_ui_hooks, step by step.
Hooks_PreSnapshot ==
    /\ pc = "pre_snapshot" /\ cmd \in HookCommands
    /\ describe_all("pre_summary")

Hooks_PreSummary ==
    /\ pc = "pre_summary" /\ cmd \in HookCommands
    /\ local_step("summary", "action")

Hooks_Action ==
    /\ pc = "action" /\ cmd \in HookCommands
    /\ run_action("sleep")

Hooks_Sleep ==
    /\ pc = "sleep" /\ cmd \in HookCommands
    /\ local_step("sleep", "post_snapshot")

Hooks_PostSnapshot ==
    /\ pc = "post_snapshot" /\ cmd \in HookCommands
    /\ describe_all_post("post_summary")

Hooks_PostSummary ==
    /\ pc = "post_summary" /\ cmd \in HookCommands
    /\ local_step("summary", "returned")

\* cmd_tap_element, step by step.
TapElement_Describe ==
    /\ pc = "pre_snapshot" /\ cmd = "tap-element"
    /\ describe_all("pre_summary")

TapElement_PreSummary ==
    /\ pc = "pre_summary" /\ cmd = "tap-element"
    /\ local_step("summary", "find")

\* cmd_tap_element without the sys.exit(1): a missing element is tapped anyway.
TapElement_Find_no_exit ==
    /\ pc = "find" /\ cmd = "tap-element"
    /\ go_on("action")

TapElement_Find ==
    /\ pc = "find" /\ cmd = "tap-element"
    /\ IF find_element(ui, arg) = 0 THEN exit_1 ELSE go_on("action")

TapElement_Tap ==
    /\ pc = "action" /\ cmd = "tap-element"
    /\ run_action("sleep")

TapElement_Sleep ==
    /\ pc = "sleep" /\ cmd = "tap-element"
    /\ local_step("sleep", "post_snapshot")

TapElement_PostDescribe ==
    /\ pc = "post_snapshot" /\ cmd = "tap-element"
    /\ describe_all_post("post_summary")

TapElement_PostSummary ==
    /\ pc = "post_summary" /\ cmd = "tap-element"
    /\ local_step("summary", "returned")

\* cmd_scroll, step by step; the swipe's numbers are ScrollCompute's.
CmdScroll_Probe ==
    /\ pc = "pre_snapshot" /\ cmd = "scroll"
    /\ describe_all("pre_summary")

\* direction_map[args.direction] raises KeyError for a word not in the table.
CmdScroll_PreSummary ==
    /\ pc = "pre_summary" /\ cmd = "scroll"
    /\ IF arg \in DOMAIN scroll_table(ui, Pt(DefaultDistance))
       THEN local_step("summary", "action")
       ELSE uncaught

CmdScroll_Action ==
    /\ pc = "action" /\ cmd = "scroll"
    /\ run_action("sleep")

CmdScroll_Sleep ==
    /\ pc = "sleep" /\ cmd = "scroll"
    /\ local_step("sleep", "post_snapshot")

CmdScroll_PostDescribe ==
    /\ pc = "post_snapshot" /\ cmd = "scroll"
    /\ describe_all_post("post_summary")

CmdScroll_PostSummary ==
    /\ pc = "post_summary" /\ cmd = "scroll"
    /\ local_step("summary", "returned")

\* cmd_list, cmd_boot, cmd_shutdown, cmd_build, cmd_install, cmd_terminate,
\* cmd_list_apps, cmd_screenshot: one run(), then printing.
Simple_Run ==
    /\ pc = "action" /\ cmd \in SimpleCommands
    /\ run_action("returned")

\* cmd_launch: the launch, a pause, one snapshot and its summary.
Launch_Run ==
    /\ pc = "action" /\ cmd = "launch"
    /\ run_action("sleep")

Launch_Sleep ==
    /\ pc = "sleep" /\ cmd = "launch"
    /\ local_step("sleep", "post_snapshot")

Launch_Describe ==
    /\ pc = "post_snapshot" /\ cmd = "launch"
    /\ describe_all_post("post_summary")

Launch_Summary ==
    /\ pc = "post_summary" /\ cmd = "launch"
    /\ local_step("summary", "returned")

\* cmd_describe: one snapshot, printed.
Describe_Snapshot ==
    /\ pc = "pre_snapshot" /\ cmd = "describe"
    /\ describe_all("pre_summary")

Describe_Print ==
    /\ pc = "pre_summary" /\ cmd = "describe"
    /\ local_step("summary", "returned")

\* cmd_find: one snapshot, then the lookup.
CmdFind_Snapshot ==
    /\ pc = "pre_snapshot" /\ cmd = "find"
    /\ describe_all("find")

CmdFind_Lookup ==
    /\ pc = "find" /\ cmd = "find"
    /\ IF find_element(ui, arg) = 0 THEN exit_1 ELSE go_on("returned")

NextCmd ==
    \/ Parse
    \/ Dispatch
    \/ Button_Validate
    \/ Hooks_PreSnapshot \/ Hooks_PreSummary \/ Hooks_Action
    \/ Hooks_Sleep \/ Hooks_PostSnapshot \/ Hooks_PostSummary
    \/ TapElement_Describe \/ TapElement_PreSummary \/ TapElement_Find
    \/ TapElement_Tap \/ TapElement_Sleep \/ TapElement_PostDescribe
    \/ TapElement_PostSummary
    \/ CmdScroll_Probe \/ CmdScroll_PreSummary \/ CmdScroll_Action
    \/ CmdScroll_Sleep \/ CmdScroll_PostDescribe \/ CmdScroll_PostSummary
    \/ Simple_Run
    \/ Launch_Run \/ Launch_Sleep \/ Launch_Describe \/ Launch_Summary
    \/ Describe_Snapshot \/ Describe_Print
    \/ CmdFind_Snapshot \/ CmdFind_Lookup

Spec == InitCmd /\ [][NextCmd]_vars

\* ----------------------------------------------- command: what the claims say

\* The state-mutating navigation verbs.
NavCommands ==
    {"tap", "tap-element", "swipe", "scroll", "text", "key", "button", "openurl"}

\* The order of steps the navigation commands promise.
FixedOrder == <<"snapshot", "summary", "action", "sleep", "snapshot", "summary">>

\* The names of the steps taken so far, in order.
StepsTaken == [i \in 1..Len(log) |-> log[i].step]

\* Sequence a is an initial part of sequence b.
IsPrefix(a, b) == Len(a) <= Len(b) /\ \A i \in 1..Len(a) : a[i] = b[i]

\* C9: a navigation command takes its steps in the fixed order (snapshot,
\* PRE summary, action, settle delay, snapshot, POST summary): at every moment
\* the steps taken are an initial part of that order, and a command that
\* completes has taken exactly those six, each external process having
\* succeeded, the action once.
C9_FixedOrder ==
    cmd \in NavCommands =>
        /\ IsPrefix(StepsTaken, FixedOrder)
        /\ pc = "returned" =>
              /\ StepsTaken = FixedOrder
              /\ \A i \in 1..Len(log) : log[i].rc = 0

\* C9's case: a command that goes through with_ui_hooks has completed.
C9_Witness ==
    /\ cmd = "button"
    /\ pc = "returned"
    /\ StepsTaken = FixedOrder

\* C10: an external process that exits non-zero is the last step the tool
\* takes, and the tool has exited with that process's code: nothing is retried
\* and no step, external or local, follows it.
C10_StopAtFailure ==
    \A i \in 1..Len(log) :
        log[i].rc # 0 =>
            /\ i = Len(log)
            /\ pc = "exited"
            /\ exit_code = log[i].rc

\* C10's case: the action of a navigation command failed after a successful
\* pre-action snapshot, and the tool exited with the action's code.
C10_Witness ==
    /\ cmd = "tap"
    /\ pc = "exited"
    /\ StepsTaken = <<"snapshot", "summary", "action">>
    /\ log[3].rc = 2
    /\ exit_code = 2

\* The five hardware-button names the claim lists.
ClaimedButtons ==
    { <<"A", "P", "P", "L", "E", "_", "P", "A", "Y">>, <<"H", "O", "M", "E">>,
      <<"L", "O", "C", "K">>,
      <<"S", "I", "D", "E", "_", "B", "U", "T", "T", "O", "N">>,
      <<"S", "I", "R", "I">> }

\* Text a, upper-cased, is the upper-case name v: each character of a is the
\* character of v or its lower-case letter.
UpperCasesTo(a, v) ==
    /\ Len(a) = Len(v)
    /\ \A i \in 1..Len(v) :
          \/ a[i] = v[i]
          \/ \E k \in 1..Len(UpperLetters) :
                a[i] = LowerLetters[k] /\ v[i] = UpperLetters[k]

\* The button name given is outside the claimed set after upper-casing.
ButtonOutside == ~\E v \in ClaimedButtons : UpperCasesTo(arg, v)

\* The pre-action snapshot succeeded and find_element finds nothing in it.
NotFound ==
    /\ Len(log) >= 1
    /\ log[1].step = "snapshot" /\ log[1].rc = 0
    /\ find_element(ui, arg) = 0

\* The number of steps of one kind taken so far.
CountSteps(kind) == Cardinality({ i \in 1..Len(log) : log[i].step = kind })

\* C11: a local validation failure exits with code 1 and performs no UI
\* action.  tap-element whose lookup finds nothing never runs the tap, takes
\* no second snapshot, and its only exit is with code 1; find whose lookup
\* finds nothing runs nothing after its snapshot and exits with code 1; button
\* with a name outside the five valid ones (upper-cased) runs no external
\* process at all and exits with code 1, while a name inside them in any case
\* is not refused.
C11_LocalFailure ==
    /\ (cmd = "tap-element" /\ NotFound) =>
          /\ CountSteps("action") = 0
          /\ CountSteps("snapshot") = 1
          /\ pc \in {"pre_summary", "find", "exited"}
          /\ pc = "exited" => exit_code = 1
    /\ (cmd = "find" /\ NotFound) =>
          /\ Len(log) = 1
          /\ pc \in {"find", "exited"}
          /\ pc = "exited" => exit_code = 1
    /\ (cmd = "button" /\ ButtonOutside) =>
          /\ log = <<>>
          /\ pc \in {"start", "parsed", "validate", "exited"}
          /\ pc = "exited" => exit_code = 1
    /\ (cmd = "button" /\ ~ButtonOutside) => ~(pc = "exited" /\ log = <<>>)

\* C11's case: tap-element found no element in a non-empty snapshot and has
\* exited with code 1 after the PRE summary, the tap never run.
C11_Witness ==
    /\ cmd = "tap-element"
    /\ NotFound
    /\ Len(ui) > 0
    /\ pc = "exited"
    /\ exit_code = 1
    /\ StepsTaken = <<"snapshot", "summary">>

\* The four scroll directions the claim lists.
ClaimedDirections == {"up", "down", "left", "right"}

\* C12: scroll with a direction other than up, down, left or right is refused
\* by the argument parser: the handler is never entered and no external
\* process runs; and the lookup in the direction table never fails, for any
\* command line.
C12_UnknownDirectionRejected ==
    /\ (cmd = "scroll" /\ arg \notin ClaimedDirections) =>
          /\ log = <<>>
          /\ pc \in {"start", "exited"}
    /\ pc # "crashed"

\* C12's case: scroll was given a word outside the four directions and the
\* tool has exited from the parser, nothing run.
C12_Witness ==
    /\ cmd = "scroll"
    /\ arg = "diagonal"
    /\ pc = "exited"
    /\ exit_code # 0
    /\ log = <<>>

====
